---- MODULE Spec2Model ----
(***************************************************************************)
(* State-machine model of the LogoLoop marquee component                   *)
(* (src/src/components/LogoLoop.tsx): the layout sizer (updateDimensions), *)
(* the motion controller (useAnimationLoop), the image-load tracker        *)
(* (useImageLoader), the hover handlers and the item renderer.             *)
(*                                                                         *)
(* Numbers.  The component computes in IEEE doubles; the model computes in *)
(* fixed point:                                                            *)
(*   - lengths that the code keeps as pixels (clientWidth, seqWidth,       *)
(*     offset) are integers; the measured sequence width                   *)
(*     (getBoundingClientRect().width, fractional) is a numerator over     *)
(*     SubPixel;                                                           *)
(*   - timestamps are milliseconds, multiples of SMOOTH_TAU_MS, so that    *)
(*     deltaTime / SMOOTH_TAU is a whole number of time constants;         *)
(*   - Math.exp is evaluated in thousandths (ExpNegMilli), products are    *)
(*     rounded to the nearest unit (RoundDiv).                             *)
(*                                                                         *)
(* React.  A handler that changes props or state is followed, in the same  *)
(* action, by the commit it causes: the render, then the effects of that   *)
(* render in declaration order (useResizeObserver, useImageLoader,         *)
(* useAnimationLoop), then the render caused by the state the effects set. *)
(***************************************************************************)
EXTENDS Integers, FiniteSets, Sequences, TLC

\* ---------------------------------------------------------------- bounds
MaxTick == 1
MaxSpeed == 4
MaxHoverSpeed == 1
MaxContainerWidth == 1
MaxSeqWidthN == 5
MaxImages == 2
SubPixel == 2
MaxLayoutWidth == 6

\* ------------------------------------------------------------- constants
SMOOTH_TAU_MS == 250
MIN_COPIES == 2
COPY_HEADROOM == 2
MS_PER_S == 1000
Milli == 1000
ExpNegOneMilli == 368
Null == -1

Undefined == [defined |-> FALSE, value |-> 0]
Some(v) == [defined |-> TRUE, value |-> v]
UndefinedStr == "undefined"

\* ------------------------------------------------------- numeric helpers
Abs(x) == IF x < 0 THEN -x ELSE x
Max(a, b) == IF a >= b THEN a ELSE b

\* Math.ceil(a / b) for a >= 0, b > 0
CeilDiv(a, b) == (a + b - 1) \div b

\* a fixed-point product scaled back, rounded to nearest as IEEE arithmetic rounds
RoundDiv(a, b) == IF a >= 0 THEN (2 * a + b) \div (2 * b) ELSE -((2 * (-a) + b) \div (2 * b))

\* the JavaScript % operator: the result takes the sign of the dividend
JsRem(a, b) == IF a >= 0 THEN a % b ELSE -((-a) % b)

WrapSingle(x, w) == JsRem(x, w)

\* ((x % w) + w) % w
Wrap(x, w) == JsRem(JsRem(x, w) + w, w)

RECURSIVE ExpNegSteps(_)
ExpNegSteps(q) == IF q = 0 THEN Milli ELSE (ExpNegSteps(q - 1) * ExpNegOneMilli) \div Milli

\* Math.exp(-deltaTime / SMOOTH_TAU), in thousandths; dtMs is deltaTime * 1000
ExpNegMilli(dtMs) == ExpNegSteps(dtMs \div SMOOTH_TAU_MS)

\* 1 - Math.exp(-deltaTime / SMOOTH_TAU), in thousandths
EasingFactorMilli(dtMs) == Milli - ExpNegMilli(dtMs)

\* ------------------------------------------------------------------ state
VARIABLES
  lifecycle,         \* "constructed" (rendered, effects not run), "mounted", "unmounted"
  speed,             \* prop speed
  direction,         \* prop direction
  hoverSpeed,        \* prop hoverSpeed (number | undefined)
  prefersReduced,    \* host: matchMedia('(prefers-reduced-motion: reduce)').matches
  seqWidth,          \* useState(0)
  copyCount,         \* useState(MIN_COPIES)
  isHovered,         \* useState(false)
  act,               \* the live activation of the useAnimationLoop effect: its
                     \* captured dependencies and the branch it took
  rafRef,            \* rafRef.current
  lastTimestampRef,  \* lastTimestampRef.current
  offsetRef,         \* offsetRef.current
  velocityRef,       \* velocityRef.current
  transform,         \* track.style.transform, as the x translation
  rafQueue,          \* host: the frame callbacks requested and not yet run or cancelled
  measured,          \* what the last updateDimensions call read from the DOM
  framesRun,         \* frames executed since the live activation started (0, 1, 2 = more)
  images,            \* the <img> elements of the first copy: their load status
  seqPresent,        \* seqRef.current is an element
  listeners,         \* per image, the events handleImageLoad is registered for
  remainingImages,   \* useImageLoader's closure counter
  onLoadCalls,       \* onLoad() invocations made by the latest useImageLoader activation
  loaderActive,      \* that activation's cleanup has not run
  item,              \* the LogoItem handed to renderLogoItemInternal
  customRender,      \* prop renderItem is supplied
  rendered           \* what renderLogoItemInternal produced for item

motionVars == <<lifecycle, speed, direction, hoverSpeed, prefersReduced, seqWidth,
                copyCount, isHovered, act, rafRef, lastTimestampRef, offsetRef,
                velocityRef, transform, rafQueue, measured, framesRun>>
loaderVars == <<images, seqPresent, listeners, remainingImages, onLoadCalls, loaderActive>>
renderVars == <<item, customRender, rendered>>
vars == <<motionVars, loaderVars, renderVars>>

\* the component's state as one value, so that handlers compose as functions
S == [lifecycle |-> lifecycle, speed |-> speed, direction |-> direction,
      hoverSpeed |-> hoverSpeed, prefersReduced |-> prefersReduced,
      seqWidth |-> seqWidth, copyCount |-> copyCount, isHovered |-> isHovered,
      act |-> act, rafRef |-> rafRef, lastTimestampRef |-> lastTimestampRef,
      offsetRef |-> offsetRef, velocityRef |-> velocityRef, transform |-> transform,
      rafQueue |-> rafQueue, measured |-> measured, framesRun |-> framesRun,
      images |-> images, seqPresent |-> seqPresent, listeners |-> listeners,
      remainingImages |-> remainingImages, onLoadCalls |-> onLoadCalls,
      loaderActive |-> loaderActive]

SetFields(s) ==
  /\ lifecycle' = s.lifecycle
  /\ speed' = s.speed
  /\ direction' = s.direction
  /\ hoverSpeed' = s.hoverSpeed
  /\ prefersReduced' = s.prefersReduced
  /\ seqWidth' = s.seqWidth
  /\ copyCount' = s.copyCount
  /\ isHovered' = s.isHovered
  /\ act' = s.act
  /\ rafRef' = s.rafRef
  /\ lastTimestampRef' = s.lastTimestampRef
  /\ offsetRef' = s.offsetRef
  /\ velocityRef' = s.velocityRef
  /\ transform' = s.transform
  /\ rafQueue' = s.rafQueue
  /\ measured' = s.measured
  /\ framesRun' = s.framesRun
  /\ images' = s.images
  /\ seqPresent' = s.seqPresent
  /\ listeners' = s.listeners
  /\ remainingImages' = s.remainingImages
  /\ onLoadCalls' = s.onLoadCalls
  /\ loaderActive' = s.loaderActive

\* the next state is the value e
Set(e) == \E s \in {e} : SetFields(s)

\* ------------------------------------------------------ memoised values
\* const effectiveHoverSpeed = useMemo(...)
EffectiveHoverSpeed(h) == IF h.defined THEN h.value ELSE 0

TargetVelocityNoReverse(s, d) ==
  LET magnitude == Abs(s)
      directionMultiplier == IF d = "left" THEN 1 ELSE -1
  IN magnitude * directionMultiplier

\* const targetVelocity = useMemo(...)
TargetVelocity(s, d) ==
  LET magnitude == Abs(s)
      directionMultiplier == IF d = "left" THEN 1 ELSE -1
      speedMultiplier == IF s < 0 THEN -1 ELSE 1
  IN magnitude * directionMultiplier * speedMultiplier

\* --------------------------------------------------------- layout sizer
NoMeasure == [cw |-> Null, swN |-> Null]

CopiesNeededNoHeadroom(cw, swN) == CeilDiv(cw * SubPixel, swN)

\* Math.ceil(containerWidth / sequenceWidth) + COPY_HEADROOM, sequenceWidth = swN / SubPixel
CopiesNeeded(cw, swN) == CeilDiv(cw * SubPixel, swN) + COPY_HEADROOM

\* updateDimensions: the two setState calls (cw = clientWidth, swN / SubPixel =
\* getBoundingClientRect().width)
UpdateDimensions(s, cw, swN) ==
  LET containerWidth == cw
      sequenceWidthN == IF s.seqPresent THEN swN ELSE 0
      m == [s EXCEPT !.measured = [cw |-> containerWidth, swN |-> sequenceWidthN]]
  IN IF sequenceWidthN > 0
       THEN [m EXCEPT !.seqWidth = CeilDiv(sequenceWidthN, SubPixel),
                      !.copyCount = Max(MIN_COPIES, CopiesNeeded(containerWidth, sequenceWidthN))]
       ELSE m

\* ----------------------------------------------------- motion controller
NoAct == [live |-> FALSE, reduced |-> FALSE, targetVelocity |-> 0, seqWidth |-> 0,
          isHovered |-> FALSE, hoverSpeed |-> Undefined]

\* the arguments of useAnimationLoop for the render of state s (its dependency list)
Deps(s) == [targetVelocity |-> TargetVelocity(s.speed, s.direction),
            seqWidth |-> s.seqWidth,
            isHovered |-> s.isHovered,
            hoverSpeed |-> Some(EffectiveHoverSpeed(s.hoverSpeed))]

ActDeps(a) == [targetVelocity |-> a.targetVelocity, seqWidth |-> a.seqWidth,
               isHovered |-> a.isHovered, hoverSpeed |-> a.hoverSpeed]

\* requestAnimationFrame returns a handle no pending request has
NewHandle(s) ==
  CHOOSE n \in 1..(Cardinality(s.rafQueue) + 2) :
    /\ n /= s.rafRef
    /\ \A f \in s.rafQueue : f.id /= n
    /\ \A k \in 1..(n - 1) : k = s.rafRef \/ \E f \in s.rafQueue : f.id = k

\* the closure `animate` of one activation, registered under handle id
Callback(id, d) == [id |-> id, targetVelocity |-> d.targetVelocity, seqWidth |-> d.seqWidth,
                    isHovered |-> d.isHovered, hoverSpeed |-> d.hoverSpeed]

RequestAnimationFrame(s, d) ==
  LET id == NewHandle(s)
  IN [s EXCEPT !.rafQueue = @ \cup {Callback(id, d)}, !.rafRef = id]

\* the effect body of useAnimationLoop for the render of state s
Activate(s) ==
  LET d == Deps(s)
      off == IF d.seqWidth > 0 THEN Wrap(s.offsetRef, d.seqWidth) ELSE s.offsetRef
      tr == IF d.seqWidth > 0 THEN [set |-> TRUE, x |-> -off] ELSE s.transform
      s1 == [s EXCEPT !.offsetRef = off, !.transform = tr, !.framesRun = 0,
                      !.act = [live |-> TRUE, reduced |-> s.prefersReduced,
                               targetVelocity |-> d.targetVelocity, seqWidth |-> d.seqWidth,
                               isHovered |-> d.isHovered, hoverSpeed |-> d.hoverSpeed]]
  IN IF s.prefersReduced
       THEN [s1 EXCEPT !.transform = [set |-> TRUE, x |-> 0]]
       ELSE RequestAnimationFrame(s1, d)

CleanupAnimationNoCancel(s) ==
  [s EXCEPT !.lastTimestampRef = Null, !.act = NoAct]

CleanupAnimationKeepTimestamp(s) ==
  IF s.act.reduced
    THEN [s EXCEPT !.act = NoAct]
    ELSE [s EXCEPT !.rafQueue = {f \in @ : f.id /= s.rafRef}, !.rafRef = Null,
                   !.act = NoAct]

\* the cleanup the live activation returned
CleanupAnimation(s) ==
  IF s.act.reduced
    THEN [s EXCEPT !.lastTimestampRef = Null, !.act = NoAct]
    ELSE [s EXCEPT !.rafQueue = {f \in @ : f.id /= s.rafRef}, !.rafRef = Null,
                   !.lastTimestampRef = Null, !.act = NoAct]

\* React re-runs the effect when a dependency changed
AnimationEffect(s) ==
  IF s.act.live /\ ActDeps(s.act) = Deps(s)
    THEN s
    ELSE Activate(IF s.act.live THEN CleanupAnimation(s) ELSE s)

\* const target = isHovered && hoverSpeed !== undefined ? hoverSpeed : targetVelocity
AnimateTarget(f) ==
  IF f.isHovered /\ f.hoverSpeed.defined THEN f.hoverSpeed.value ELSE f.targetVelocity

\* animate(timestamp) of the activation that registered f
Animate(s, f, timestamp) ==
  LET last == IF s.lastTimestampRef = Null THEN timestamp ELSE s.lastTimestampRef
      dtMs == Max(0, timestamp - last)
      target == AnimateTarget(f)
      v == s.velocityRef + RoundDiv((target - s.velocityRef) * EasingFactorMilli(dtMs), Milli)
      nextOffset == s.offsetRef + RoundDiv(v * dtMs, MS_PER_S)
      s1 == [s EXCEPT !.lastTimestampRef = timestamp, !.velocityRef = v,
                      !.framesRun = IF @ < 2 THEN @ + 1 ELSE @]
      s2 == IF f.seqWidth > 0
              THEN [s1 EXCEPT !.offsetRef = Wrap(nextOffset, f.seqWidth),
                              !.transform = [set |-> TRUE, x |-> -Wrap(nextOffset, f.seqWidth)]]
              ELSE s1
  IN RequestAnimationFrame(s2, f)

\* ------------------------------------------------------- image loader
\* onLoad is updateDimensions
OnLoad(s, cw, swN) == [UpdateDimensions(s, cw, swN) EXCEPT !.onLoadCalls = @ + 1]

HandleImageLoadEveryTime(s, cw, swN) ==
  OnLoad([s EXCEPT !.remainingImages = @ - 1], cw, swN)

\* handleImageLoad
HandleImageLoad(s, cw, swN) ==
  LET s1 == [s EXCEPT !.remainingImages = @ - 1]
  IN IF s1.remainingImages = 0 THEN OnLoad(s1, cw, swN) ELSE s1

\* images.forEach(...), from image i on
RECURSIVE ForEachImage(_, _, _, _)
ForEachImage(s, i, cw, swN) ==
  IF i > Len(s.images)
    THEN s
    ELSE ForEachImage(IF s.images[i] /= "pending"
                        THEN HandleImageLoad(s, cw, swN)
                        ELSE [s EXCEPT !.listeners[i] = {"load", "error"}],
                      i + 1, cw, swN)

\* the effect body of useImageLoader
ActivateLoader(s, cw, swN) ==
  LET s0 == [s EXCEPT !.loaderActive = TRUE, !.onLoadCalls = 0, !.remainingImages = 0]
  IN IF ~s.seqPresent
       THEN OnLoad(s0, cw, swN)
       ELSE IF Len(s.images) = 0
         THEN OnLoad(s0, cw, swN)
         ELSE ForEachImage([s0 EXCEPT !.remainingImages = Len(s.images)], 1, cw, swN)

\* the cleanup the activation returned: removeEventListener on every image
CleanupLoader(s) ==
  [s EXCEPT !.listeners = [i \in DOMAIN s.listeners |-> {}], !.loaderActive = FALSE]

\* the dependency list holds a fresh array literal: the effect re-runs on every render
LoaderEffect(s, cw, swN) ==
  ActivateLoader(IF s.loaderActive THEN CleanupLoader(s) ELSE s, cw, swN)

\* ------------------------------------------------------------- commits
\* what a render of LogoLoop reads: a change of any of these re-renders
RenderInputs(s) == <<s.speed, s.direction, s.hoverSpeed, s.seqWidth, s.copyCount, s.isHovered>>

\* the effects of one render, the DOM measuring cw and swN / SubPixel:
\* useAnimationLoop for the rendered values, useResizeObserver (which calls
\* callback() = updateDimensions) and useImageLoader.  The state the callbacks
\* set is seen by the next render only; the three effects write disjoint state,
\* so the order among them does not matter.
EffectsOnce(s, cw, swN) ==
  LoaderEffect(UpdateDimensions(AnimationEffect(s), cw, swN), cw, swN)

\* a render and the render its effects cause; the second measures the same DOM
\* and sets the same state, so there is no third
Commit(s, cw, swN) ==
  LET s1 == EffectsOnce(s, cw, swN)
  IN IF RenderInputs(s1) = RenderInputs(s) THEN s1 ELSE EffectsOnce(s1, cw, swN)

\* a state update made outside a render (an observer callback, an image event)
AfterUpdate(s, s1, cw, swN) ==
  IF s1.lifecycle = "mounted" /\ RenderInputs(s1) /= RenderInputs(s)
    THEN Commit(s1, cw, swN)
    ELSE s1

\* -------------------------------------------------------- input domains
Speeds == {-MaxSpeed, 0, MaxSpeed}
Directions == {"left", "right"}
HoverSpeeds == {Undefined, Some(MaxHoverSpeed)}
FrameTimes == {k * SMOOTH_TAU_MS : k \in 0..MaxTick}
ContainerWidths == {MaxContainerWidth}
SeqWidthsN == 0..MaxSeqWidthN

NoItem == [hasNode |-> FALSE, ariaLabel |-> UndefinedStr, title |-> UndefinedStr,
           alt |-> UndefinedStr, href |-> UndefinedStr]

\* ------------------------------------------------------------- actions
InitComponent ==
  /\ lifecycle = "constructed"
  /\ seqWidth = 0
  /\ copyCount = MIN_COPIES
  /\ isHovered = FALSE
  /\ act = NoAct
  /\ rafRef = Null
  /\ lastTimestampRef = Null
  /\ offsetRef = 0
  /\ velocityRef = 0
  /\ transform = [set |-> FALSE, x |-> 0]
  /\ rafQueue = {}
  /\ measured = NoMeasure
  /\ framesRun = 0
  /\ remainingImages = 0
  /\ onLoadCalls = 0
  /\ loaderActive = FALSE

Init ==
  /\ InitComponent
  /\ speed \in Speeds
  /\ direction \in Directions
  /\ hoverSpeed \in HoverSpeeds
  /\ prefersReduced \in BOOLEAN
  /\ images = << >>
  /\ listeners = << >>
  /\ seqPresent = TRUE
  /\ item = NoItem
  /\ customRender = FALSE
  /\ rendered = "not rendered"

\* the first commit: every effect runs
Mount ==
  /\ lifecycle = "constructed"
  /\ \E cw \in ContainerWidths, swN \in SeqWidthsN :
       Set(Commit([S EXCEPT !.lifecycle = "mounted"], cw, swN))
  /\ UNCHANGED renderVars

\* the cleanups of all effects
Unmount ==
  /\ lifecycle = "mounted"
  /\ Set([CleanupLoader(CleanupAnimation(S)) EXCEPT !.lifecycle = "unmounted"])
  /\ UNCHANGED renderVars

\* the host runs a pending frame callback with a timestamp of its choosing
Frame ==
  /\ \E f \in rafQueue, t \in FrameTimes :
       Set(Animate([S EXCEPT !.rafQueue = @ \ {f}], f, t))
  /\ UNCHANGED renderVars

\* the ResizeObserver (or the window resize listener) calls updateDimensions
Resize ==
  /\ lifecycle = "mounted"
  /\ \E cw \in ContainerWidths, swN \in SeqWidthsN :
       Set(AfterUpdate(S, UpdateDimensions(S, cw, swN), cw, swN))
  /\ UNCHANGED renderVars

\* the parent re-renders LogoLoop with other speed, direction or hoverSpeed; the
\* DOM is as last measured (a change of it is a Resize)
SetProps ==
  /\ lifecycle = "mounted"
  /\ \E sp \in Speeds, d \in Directions, h \in HoverSpeeds :
       /\ <<sp, d, h>> /= <<speed, direction, hoverSpeed>>
       /\ Set(Commit([S EXCEPT !.speed = sp, !.direction = d, !.hoverSpeed = h],
                     measured.cw, measured.swN))
  /\ UNCHANGED renderVars

\* handleMouseEnter
HandleMouseEnter ==
  /\ lifecycle = "mounted"
  /\ Set(AfterUpdate(S, IF hoverSpeed.defined THEN [S EXCEPT !.isHovered = TRUE] ELSE S,
                     measured.cw, measured.swN))
  /\ UNCHANGED renderVars

\* handleMouseLeave
HandleMouseLeave ==
  /\ lifecycle = "mounted"
  /\ Set(AfterUpdate(S, IF hoverSpeed.defined THEN [S EXCEPT !.isHovered = FALSE] ELSE S,
                     measured.cw, measured.swN))
  /\ UNCHANGED renderVars

\* the user switches the system's reduced-motion preference
MediaChange ==
  /\ lifecycle = "mounted"
  /\ prefersReduced' = ~prefersReduced
  /\ UNCHANGED <<lifecycle, speed, direction, hoverSpeed, seqWidth, copyCount, isHovered,
                 act, rafRef, lastTimestampRef, offsetRef, velocityRef, transform,
                 rafQueue, measured, framesRun>>
  /\ UNCHANGED <<loaderVars, renderVars>>

Next ==
  \/ Mount
  \/ Unmount
  \/ Frame
  \/ Resize
  \/ SetProps
  \/ HandleMouseEnter
  \/ HandleMouseLeave
  \/ MediaChange

Spec == Init /\ [][Next]_vars

\* --------------------------------------------------------------------
\* Layout sizer over a wider range of measurements (no frames run, so the
\* sequence may be hundreds of pixels wide)
LayoutContainerWidths == (0..MaxLayoutWidth) \cup {250}
LayoutSeqWidthsN == (0..MaxLayoutWidth) \cup {200 * SubPixel}

InitLayout ==
  /\ InitComponent
  /\ speed = MaxSpeed
  /\ direction \in Directions
  /\ hoverSpeed = Undefined
  /\ prefersReduced \in BOOLEAN
  /\ images = << >>
  /\ listeners = << >>
  /\ seqPresent = TRUE
  /\ item = NoItem
  /\ customRender = FALSE
  /\ rendered = "not rendered"

MountLayout ==
  /\ lifecycle = "constructed"
  /\ \E cw \in LayoutContainerWidths, swN \in LayoutSeqWidthsN :
       Set(Commit([S EXCEPT !.lifecycle = "mounted"], cw, swN))
  /\ UNCHANGED renderVars

ResizeLayout ==
  /\ lifecycle = "mounted"
  /\ \E cw \in LayoutContainerWidths, swN \in LayoutSeqWidthsN :
       Set(AfterUpdate(S, UpdateDimensions(S, cw, swN), cw, swN))
  /\ UNCHANGED renderVars

NextLayout ==
  \/ MountLayout
  \/ ResizeLayout
  \/ Unmount

SpecLayout == InitLayout /\ [][NextLayout]_vars

\* --------------------------------------------------------------------
\* Image loading: the first copy holds up to MaxImages <img> elements, each
\* already complete when rendered or still pending; a pending image settles
\* once, with a load or an error event
ImageStatusAtRender == {"complete", "pending"}

InitImages ==
  /\ InitComponent
  /\ speed = MaxSpeed
  /\ direction = "left"
  /\ hoverSpeed = Undefined
  /\ prefersReduced = FALSE
  /\ \E n \in 0..MaxImages :
       /\ images \in [1..n -> ImageStatusAtRender]
       /\ listeners = [i \in 1..n |-> {}]
  /\ seqPresent \in BOOLEAN
  /\ item = NoItem
  /\ customRender = FALSE
  /\ rendered = "not rendered"

\* image i fires ev ("load" or "error"); a listener registered with { once: true }
\* is removed as it runs
ImageSettles(i, ev) ==
  /\ images[i] = "pending"
  /\ \E cw \in ContainerWidths, swN \in SeqWidthsN :
       LET s0 == [S EXCEPT !.images[i] = IF ev = "load" THEN "loaded" ELSE "failed"]
       IN IF ev \in listeners[i]
            THEN Set(AfterUpdate(s0, HandleImageLoad([s0 EXCEPT !.listeners[i] = @ \ {ev}],
                                                     cw, swN), cw, swN))
            ELSE Set(s0)
  /\ UNCHANGED renderVars

ImageLoad == \E i \in DOMAIN images : ImageSettles(i, "load")

ImageError == \E i \in DOMAIN images : ImageSettles(i, "error")

\* any re-render of the mounted component (the parent passes a new logos array,
\* say): every effect whose dependencies changed runs again
Rerender ==
  /\ lifecycle = "mounted"
  /\ Set(Commit(S, measured.cw, measured.swN))
  /\ UNCHANGED renderVars

NextImages ==
  \/ Mount
  \/ Unmount
  \/ Rerender
  \/ ImageLoad
  \/ ImageError

SpecImages == InitImages /\ [][NextImages]_vars

\* --------------------------------------------------------------------
\* Item renderer
LabelStrings(s) == {UndefinedStr, "", s}

Items == [hasNode : BOOLEAN, ariaLabel : LabelStrings("aria"), title : LabelStrings("title"),
          alt : LabelStrings("alt"), href : LabelStrings("https://example.com")]

\* JavaScript truthiness of a string | undefined
Truthy(x) == x /= UndefinedStr /\ x /= ""

\* a ?? b
Nullish(a, b) == IF a /= UndefinedStr THEN a ELSE b

\* renderLogoItemInternal: the aria-label of the link it renders, "no link" when
\* the content is not wrapped, "custom" when renderItem renders the item
RenderLogoItemInternal(it, custom) ==
  LET isNodeItem == it.hasNode
      itemAriaLabel == IF isNodeItem THEN Nullish(it.ariaLabel, it.title)
                                     ELSE Nullish(it.alt, it.title)
  IN IF custom THEN "custom"
     ELSE IF Truthy(it.href)
       THEN (IF Truthy(itemAriaLabel) THEN itemAriaLabel ELSE "logo link")
       ELSE "no link"

InitRender ==
  /\ InitComponent
  /\ speed = MaxSpeed
  /\ direction = "left"
  /\ hoverSpeed = Undefined
  /\ prefersReduced = FALSE
  /\ images = << >>
  /\ listeners = << >>
  /\ seqPresent = TRUE
  /\ item \in Items
  /\ customRender \in BOOLEAN
  /\ rendered = "not rendered"

RenderItem ==
  /\ rendered = "not rendered"
  /\ rendered' = RenderLogoItemInternal(item, customRender)
  /\ UNCHANGED <<motionVars, loaderVars, item, customRender>>

NextRender == RenderItem

SpecRender == InitRender /\ [][NextRender]_vars

\* ====================================================================
\* Properties

\* C1: whenever seqWidth > 0 the scroll offset lies in [0, seqWidth), after any
\* frames (any timestamps, either sign of velocity) and any re-measurement
C1_OffsetInRange == seqWidth > 0 => (0 <= offsetRef /\ offsetRef < seqWidth)

\* a frame at negative velocity wrapped the offset backwards past 0
C1_Witness ==
  /\ seqWidth > 1
  /\ velocityRef < 0
  /\ framesRun = 2
  /\ offsetRef = seqWidth - 1

\* the least k with k * (swN / SubPixel) >= cw, i.e. ceil(cw / (swN / SubPixel))
CeilOfRatio(num, den) ==
  CHOOSE k \in 0..(num + 1) : k * den >= num /\ (k = 0 \/ (k - 1) * den < num)

\* C2: copyCount >= 2 always; after an updateDimensions call that measured a
\* positive sequence width sw and container width cw, copyCount is
\* max(2, ceil(cw / sw) + 2), which is at least ceil(cw / seqWidth) + 2
C2_CopyCount ==
  /\ copyCount >= 2
  /\ measured.swN > 0 =>
       /\ seqWidth > 0
       /\ copyCount = Max(2, CeilOfRatio(measured.cw * SubPixel, measured.swN) + 2)
       /\ copyCount >= CeilOfRatio(measured.cw, seqWidth) + 2

\* the worked example: sequence 200 px wide in a 250 px container
C2_Witness ==
  /\ measured = [cw |-> 250, swN |-> 200 * SubPixel]
  /\ seqWidth = 200
  /\ copyCount = 4

\* C3: whenever the most recent measurement of the sequence returned width 0,
\* the offset is 0 (and so no frame has advanced it)
C3_ZeroWidthFreezes == measured.swN = 0 => offsetRef = 0

\* C4: in an activation that found the reduced-motion preference active, the
\* offset is 0, the transform is pinned at translate 0 and no frame is scheduled
C4_ReducedMotionPinned ==
  (act.live /\ act.reduced) =>
    /\ offsetRef = 0
    /\ transform = [set |-> TRUE, x |-> 0]
    /\ rafQueue = {}

\* C5: at most one frame callback is pending and it belongs to the live
\* activation; once a cleanup has run, no callback of the torn-down activation
\* is left to execute and lastTimestamp is null
C5_TeardownCancels ==
  /\ Cardinality(rafQueue) <= 1
  /\ \A f \in rafQueue :
       /\ act.live /\ ~act.reduced
       /\ f = Callback(rafRef, ActDeps(act))
  /\ ~act.live => (rafQueue = {} /\ lastTimestampRef = Null)
  /\ framesRun = 0 => lastTimestampRef = Null

\* the component was unmounted while its loop had been running
C5_Witness ==
  /\ lifecycle = "unmounted"
  /\ framesRun = 2
  /\ velocityRef /= 0
  /\ rafQueue = {}

AllSettled == \A i \in DOMAIN images : images[i] /= "pending"

C6_Invariant ==
  /\ onLoadCalls <= 1
  /\ loaderActive =>
       onLoadCalls = (IF ~seqPresent \/ Len(images) = 0 \/ AllSettled THEN 1 ELSE 0)

\* C6: an activation of useImageLoader has invoked onLoad exactly once if the
\* sequence element is absent, or holds no image, or every image has settled
\* (loaded or failed), and not at all otherwise; after its cleanup it invokes
\* onLoad no more
C6_OnLoadOnce ==
  [][ /\ C6_Invariant'
      /\ (~loaderActive /\ ~loaderActive') => onLoadCalls' = onLoadCalls ]_vars

\* two of two images failed while this activation listened: each error listener
\* ran and was removed, the load listeners are still registered
C6_Witness ==
  /\ loaderActive
  /\ images = <<"failed", "failed">>
  /\ listeners = <<{"load"}, {"load"}>>
  /\ remainingImages = 0
  /\ onLoadCalls = 1

Sign(x) == IF x > 0 THEN 1 ELSE IF x < 0 THEN -1 ELSE 0

\* C7: the target velocity the loop runs with is |speed| * d * sign(speed),
\* d = +1 for "left" and -1 for "right"
C7_TargetVelocity ==
  act.live =>
    act.targetVelocity = Abs(speed) * (IF direction = "left" THEN 1 ELSE -1) * Sign(speed)

\* a negative speed reverses direction "right" into a positive velocity
C7_Witness ==
  /\ act.live
  /\ speed < 0
  /\ direction = "right"
  /\ act.targetVelocity = -speed

\* C8: the target of every frame is the hover speed if and only if the pointer
\* is hovering and hoverSpeed is configured, and the base target velocity
\* otherwise
C8_HoverTarget ==
  \A f \in rafQueue :
    AnimateTarget(f) = IF isHovered /\ hoverSpeed.defined
                         THEN hoverSpeed.value
                         ELSE TargetVelocity(speed, direction)

HasLabel(x) == x /= UndefinedStr /\ x /= ""

\* C9: a link rendered by the default renderer is labelled with the item's
\* ariaLabel, else its title, else "logo link"
C9_LinkLabel ==
  (rendered /= "not rendered" /\ ~customRender /\ Truthy(item.href)) =>
    rendered = IF HasLabel(item.ariaLabel) THEN item.ariaLabel
               ELSE IF HasLabel(item.title) THEN item.title
               ELSE "logo link"

\* C10: the first frame of an activation changes neither velocity nor offset
C10_FirstFrameNoOp ==
  [][ (framesRun = 0 /\ framesRun' = 1) =>
        (offsetRef' = offsetRef /\ velocityRef' = velocityRef) ]_vars

\* the first frame of a re-activation has run, at a later timestamp than the
\* frames before it, while the marquee was scrolling
C10_Witness ==
  /\ framesRun = 1
  /\ lastTimestampRef > 0
  /\ velocityRef /= 0
  /\ offsetRef /= 0

====
